---------------------------- MODULE Spec2Model ----------------------------
(***************************************************************************)
(* Model of the Blaupunkt outdoor-display driver (src/src/main.cpp).       *)
(*                                                                         *)
(* Three layers of the program are modelled:                               *)
(*   - the line driver and the serial frame transmitter, one primitive    *)
(*     Arduino call (pinMode, digitalWrite, delayMicroseconds) per step   *)
(*     (specification SpecTx);                                             *)
(*   - the symbol encoders setOutdoorDisplay(int), setOutdoorDisplay(String)*)
(*     and setOutdoorDisplay_animate (specification SpecEnc);              *)
(*   - the display session, i.e. loop() with its handlers and timers       *)
(*     (specification Spec).                                               *)
(***************************************************************************)
EXTENDS Integers, Sequences, FiniteSets, TLC

(***************************************************************************)
(* Pins and the primitive pin operations                                   *)
(***************************************************************************)
PIN_LATCH == 2
PIN_DATA == 3
PIN_CLOCK == 4

PinSet == {PIN_LATCH, PIN_DATA, PIN_CLOCK}

\* One primitive Arduino call.  Unused fields are kept at a fixed value so
\* that all operations are records of the same shape.
PinModeOp(pin, mode) ==
  [op |-> "pinMode", pin |-> pin, mode |-> mode, lvl |-> 0, us |-> 0]

DigitalWriteOp(pin, lvl) ==
  [op |-> "digitalWrite", pin |-> pin, mode |-> "-", lvl |-> lvl, us |-> 0]

delayMicroseconds(us) ==
  << [op |-> "delayMicroseconds", pin |-> 0, mode |-> "-", lvl |-> 0, us |-> us] >>

\* setPinLow: pinMode(pin, OUTPUT); digitalWrite(pin, LOW)
setPinLow(pin) == << PinModeOp(pin, "OUTPUT"), DigitalWriteOp(pin, 0) >>

\* a push-pull "high": the pin is switched to output and written high
setPinHigh_pushPull(pin) == << PinModeOp(pin, "OUTPUT"), DigitalWriteOp(pin, 1) >>

\* setPinHigh: pinMode(pin, INPUT)
setPinHigh(pin) == << PinModeOp(pin, "INPUT") >>

\* setDataBit: a bit different from 0 releases the data line, 0 drives it low
setDataBit(bit) == IF bit # 0 THEN setPinHigh(PIN_DATA) ELSE setPinLow(PIN_DATA)

T_HALF_US == 5

\* pulseClock: release, half period, drive low, half period
pulseClock ==
  setPinHigh(PIN_CLOCK) \o delayMicroseconds(T_HALF_US)
    \o setPinLow(PIN_CLOCK) \o delayMicroseconds(T_HALF_US)

\* pulseLatch: the four pin calls in source order with their dwell times
pulseLatch ==
  setPinHigh(PIN_LATCH) \o delayMicroseconds(2)
    \o setPinLow(PIN_LATCH) \o delayMicroseconds(8)
    \o setPinHigh(PIN_LATCH) \o delayMicroseconds(4)
    \o setPinLow(PIN_LATCH)

\* initPins: all three lines released
initPins ==
  setPinHigh(PIN_CLOCK) \o setPinHigh(PIN_DATA) \o setPinHigh(PIN_LATCH)

\* bool -> uint8_t conversion of the minus / celsius arguments
BoolBit(b) == IF b THEN 1 ELSE 0

\* for (i = 0; i < 7; ++i) { setDataBit(d[i]); delayMicroseconds(1); pulseClock(); }
RECURSIVE ShiftDigit(_, _)
ShiftDigit(d, i) ==
  IF i >= 7 THEN << >>
  ELSE setDataBit(d[i + 1]) \o delayMicroseconds(1) \o pulseClock
         \o ShiftDigit(d, i + 1)

\* sendBitsArray without the latch being driven low at the start
sendBitsArray_noLatchLow(digit1, digit2, minus, celsius) ==
  delayMicroseconds(4)
    \o ShiftDigit(digit1, 0)
    \o ShiftDigit(digit2, 0)
    \o setDataBit(BoolBit(minus)) \o delayMicroseconds(1) \o pulseClock
    \o setDataBit(BoolBit(celsius)) \o delayMicroseconds(1) \o pulseClock
    \o pulseLatch
    \o setPinHigh(PIN_DATA)

\* sendBitsArray that returns without releasing the data line
sendBitsArray_noRelease(digit1, digit2, minus, celsius) ==
  setPinLow(PIN_LATCH) \o delayMicroseconds(4)
    \o ShiftDigit(digit1, 0)
    \o ShiftDigit(digit2, 0)
    \o setDataBit(BoolBit(minus)) \o delayMicroseconds(1) \o pulseClock
    \o setDataBit(BoolBit(celsius)) \o delayMicroseconds(1) \o pulseClock
    \o pulseLatch

\* sendBitsArray: the primitive calls it performs, in program order
sendBitsArray(digit1, digit2, minus, celsius) ==
  setPinLow(PIN_LATCH) \o delayMicroseconds(4)
    \o ShiftDigit(digit1, 0)
    \o ShiftDigit(digit2, 0)
    \o setDataBit(BoolBit(minus)) \o delayMicroseconds(1) \o pulseClock
    \o setDataBit(BoolBit(celsius)) \o delayMicroseconds(1) \o pulseClock
    \o pulseLatch
    \o setPinHigh(PIN_DATA)

\* The 16 logical bits of a frame in the order 7 + 7 + 1 + 1
FrameBits(digit1, digit2, minus, celsius) ==
  digit1 \o digit2 \o << BoolBit(minus), BoolBit(celsius) >>

(***************************************************************************)
(* Electrical state of a pin                                               *)
(***************************************************************************)
\* A pin is its direction and the value of its output register.
\* Power-on state of the GPIO block: input, output register 0.
ResetPin == [mode |-> "INPUT", out |-> 0]

\* Effect of one primitive call on the pins
ApplyOp(o, ps) ==
  IF o.op = "pinMode" THEN [ps EXCEPT ![o.pin].mode = o.mode]
  ELSE IF o.op = "digitalWrite" THEN [ps EXCEPT ![o.pin].out = o.lvl]
  ELSE ps

\* Pins after the primitive calls ops have been made in order, starting at ps
\* Index of the last call of the given kind on the given pin in ops, 0 if none
LastOp(ops, kind, pin) ==
  LET S == {i \in 1..Len(ops) : ops[i].op = kind /\ ops[i].pin = pin}
  IN IF S = {} THEN 0 ELSE CHOOSE i \in S : \A j \in S : j <= i

\* Net effect of the calls ops made in order: each call overwrites one field
\* of one pin, so per field the last call on it decides ("keep": no call)
Effect(ops) ==
  [p \in PinSet |->
     LET m == LastOp(ops, "pinMode", p)
         w == LastOp(ops, "digitalWrite", p)
     IN [mode |-> IF m = 0 THEN "keep" ELSE ops[m].mode,
         out |-> IF w = 0 THEN -1 ELSE ops[w].lvl]]

ApplyEffect(e, ps) ==
  [p \in PinSet |->
     [mode |-> IF e[p].mode = "keep" THEN ps[p].mode ELSE e[p].mode,
      out |-> IF e[p].out = -1 THEN ps[p].out ELSE e[p].out]]

\* Pins after the primitive calls ops have been made in order, starting at ps
RunOps(ops, ps) == ApplyEffect(Effect(ops), ps)

Released(ps, pin) == ps[pin].mode = "INPUT"
DrivenLow(ps, pin) == ps[pin].mode = "OUTPUT" /\ ps[pin].out = 0
DrivenHigh(ps, pin) == ps[pin].mode = "OUTPUT" /\ ps[pin].out = 1

\* Level on the wire: a released line is pulled high by the pull-up
Level(ps, pin) == IF Released(ps, pin) THEN 1 ELSE ps[pin].out

LineState(ps, pin) ==
  IF Released(ps, pin) THEN "released"
  ELSE IF ps[pin].out = 0 THEN "low" ELSE "high"

(***************************************************************************)
(* Symbol tables                                                           *)
(***************************************************************************)
\* Segment rows of the ten digits and of the blank symbol, position 1
frame1 ==
  [i \in 0..10 |->
     CASE i = 0 -> <<1, 1, 1, 1, 1, 0, 1>>
       [] i = 1 -> <<0, 0, 0, 0, 1, 0, 1>>
       [] i = 2 -> <<1, 1, 0, 1, 1, 1, 0>>
       [] i = 3 -> <<1, 0, 0, 1, 1, 1, 1>>
       [] i = 4 -> <<0, 0, 1, 0, 1, 1, 1>>
       [] i = 5 -> <<1, 0, 1, 1, 0, 1, 1>>
       [] i = 6 -> <<1, 1, 1, 1, 0, 1, 1>>
       [] i = 7 -> <<0, 0, 0, 1, 1, 0, 1>>
       [] i = 8 -> <<1, 1, 1, 1, 1, 1, 1>>
       [] i = 9 -> <<1, 0, 1, 1, 1, 1, 1>>
       [] OTHER -> <<0, 0, 0, 0, 0, 0, 0>>]

\* Segment rows of the ten digits and of the blank symbol, position 2
frame2 ==
  [i \in 0..10 |->
     CASE i = 0 -> <<1, 1, 1, 1, 0, 1, 1>>
       [] i = 1 -> <<0, 0, 0, 0, 0, 1, 1>>
       [] i = 2 -> <<1, 0, 1, 1, 1, 1, 0>>
       [] i = 3 -> <<0, 0, 1, 1, 1, 1, 1>>
       [] i = 4 -> <<0, 1, 0, 0, 1, 1, 1>>
       [] i = 5 -> <<0, 1, 1, 1, 1, 0, 1>>
       [] i = 6 -> <<1, 1, 1, 1, 1, 0, 1>>
       [] i = 7 -> <<0, 0, 1, 0, 0, 1, 1>>
       [] i = 8 -> <<1, 1, 1, 1, 1, 1, 1>>
       [] i = 9 -> <<0, 1, 1, 1, 1, 1, 1>>
       [] OTHER -> <<0, 0, 0, 0, 0, 0, 0>>]

\* Reserved indices of the symbol table (outdoor_symbols.h)
DISPLAY_NULL_IDX == 10
DISPLAY_SIGN_MINUS_IDX == 11

(***************************************************************************)
(* Symbol encoders.  A frame is named by the two table indices and the two *)
(* lamp bits handed to sendBitsArray; an encoder yields the sequence of    *)
(* frames it transmits (empty when it returns without transmitting).       *)
(***************************************************************************)
Frame(d1, d2, minus, celsius) ==
  [d1 |-> d1, d2 |-> d2, minus |-> minus, celsius |-> celsius]

\* the encoder without the single-digit-negative case (lines 203-207 missing)
setOutdoorDisplay_noSingle(num) ==
  LET neg == num < 0
      n == IF neg THEN -num ELSE num
      tens == n \div 10
      digit2 == n % 10
      lead == IF tens = 0 THEN 10 ELSE tens
  IN << Frame(lead, digit2, neg, TRUE) >>

\* the encoder whose single-digit-negative case clears the sign bit but
\* leaves the blank symbol in position 1 (line 206 missing)
setOutdoorDisplay_noGlyph(num) ==
  LET neg == num < 0
      n == IF neg THEN -num ELSE num
      tens == n \div 10
      digit2 == n % 10
      lead == IF tens = 0 THEN 10 ELSE tens
      single == neg /\ n > 0 /\ n < 10
      minus == IF single THEN FALSE ELSE neg
  IN << Frame(lead, digit2, minus, TRUE) >>

\* setOutdoorDisplay(int num)
setOutdoorDisplay(num) ==
  LET neg == num < 0
      n == IF neg THEN -num ELSE num
      tens == n \div 10
      digit2 == n % 10
      lead == IF tens = 0 THEN 10 ELSE tens
      single == neg /\ n > 0 /\ n < 10
      minus == IF single THEN FALSE ELSE neg
      digit1 == IF single THEN DISPLAY_SIGN_MINUS_IDX ELSE lead
  IN << Frame(digit1, digit2, minus, TRUE) >>

\* setOutdoorDisplay(const String &data)
setOutdoorDisplayStr(data) ==
  CASE data = "NULL" -> << Frame(DISPLAY_NULL_IDX, DISPLAY_NULL_IDX, FALSE, TRUE) >>
    [] data = "--" -> << Frame(DISPLAY_SIGN_MINUS_IDX, DISPLAY_SIGN_MINUS_IDX, FALSE, TRUE) >>
    [] data = "01" -> << Frame(0, 1, FALSE, FALSE) >>
    [] data = "02" -> << Frame(0, 2, FALSE, FALSE) >>
    [] data = "03" -> << Frame(0, 3, FALSE, FALSE) >>
    [] data = "04" -> << Frame(0, 4, FALSE, FALSE) >>
    [] data = "05" -> << Frame(0, 5, FALSE, FALSE) >>
    [] data = "06" -> << Frame(0, 6, FALSE, FALSE) >>
    [] data = "99" -> << Frame(9, 9, FALSE, FALSE) >>
    [] OTHER -> << >>

\* setOutdoorDisplay_animate(int idx)
setOutdoorDisplay_animate(idx) ==
  << Frame(idx + 12, idx + 12, FALSE, FALSE) >>

\* animateStartLCD: for (i = 0; i < 12; i++) setOutdoorDisplay_animate(i)
RECURSIVE animateFrom(_)
animateFrom(i) ==
  IF i >= 12 THEN << >> ELSE setOutdoorDisplay_animate(i) \o animateFrom(i + 1)

animateStartLCD == animateFrom(0)

\* The fixed tokens the string overload knows
StatusCodes == {"01", "02", "03", "04", "05", "06", "99"}
Tokens == {"NULL", "--"} \cup StatusCodes

(***************************************************************************)
(* Bounds                                                                  *)
(***************************************************************************)
\* integers handed to the numeric encoder range over -MaxNum..MaxNum
MaxNum == 120
\* the call counter of the transmitter saturates here
MaxCalls == 2

\* model floats have the resolution 1/FloatScale degree
FloatScale == 2
\* retryCount (and the count of failed polls) saturates at MaxRetry: the code
\* only asks whether retryCount > 3
MaxRetry == 5
\* time advances in small steps only while the poll timer is within
\* WindowSteps steps of its start or of its deadline; the rest of the
\* interval passes in one jump
WindowSteps == 2

(***************************************************************************)
(* Timers.  A timer is kept as the time elapsed since its lastMillis,      *)
(* saturating at its interval: the code only ever compares                 *)
(* now - lastMillis with the interval.                                     *)
(***************************************************************************)
\* a poll interval one second short of five minutes
POLL_INTERVAL_short == 299 * 1000

\* every5Minuts(): const unsigned long interval = 300000UL
POLL_INTERVAL == 300000
SECOND_INTERVAL == 1000
WIFI_CHECK_INTERVAL == 2000
WIFI_RECONNECT_INTERVAL == 15000
\* a blink interval shorter than one step of the time grid
WIFI_ANIM_INTERVAL_short == WIFI_CHECK_INTERVAL \div 5
WIFI_ANIM_INTERVAL == 500
\* delay(2000) of setup(): millis() at the first pass of loop()
SETUP_DELAY == 2000
\* the twelve delay(100) of animateStartLCD
ANIMATE_START_MS == 1200

Sat(x, cap) == IF x >= cap THEN cap ELSE x

(***************************************************************************)
(* State                                                                   *)
(***************************************************************************)
VARIABLES
  pins,        \* [pin -> [mode, out]]: direction and output register
  prog,        \* primitive calls the running sendBitsArray has still to make
  call,        \* arguments of the current / last sendBitsArray call
  edges,       \* data-line levels seen at the clock's rising edges of that call
  latchTrace,  \* latch-line states of that call with their dwell times
  ncalls,      \* sendBitsArray calls started since initPins (saturating)
  pending,     \* frames the running operation has still to transmit
  act,         \* name of the operation that produced this state
  sent,        \* frames that operation handed to the transmitter
  encIn,       \* argument of the last encoder call
  pc,                  \* position of loop(): the block it executes next
  linkUp,              \* the WiFi link is up (WiFi.status() is WL_CONNECTED)
  currentTemp,         \* global currentTemp (float, in 1/FloatScale degree)
  animate_idx,         \* loop() static
  isThermometerError,  \* loop() static
  firstRun,            \* loop() static
  retryCount,          \* loop() static
  wasWifiConnected,    \* loop() static
  animState,           \* WifiCheck() static
  since5Min,           \* millis() - lastMillis of every5Minuts, saturating
  sinceSecond,         \* millis() - lastMillis of everySecond, saturating
  sinceWifiCheck,      \* millis() - lastWifiCheck, saturating
  sinceReconnect,      \* millis() - lastReconnectAttempt, saturating
  sinceAnimToggle,     \* millis() - lastAnimToggle, saturating
  resp,                \* HTTP status sent by the step just made, 0 if none
  fetched,             \* readings fetched by the step just made, if any
  accepted,            \* a fetched reading has been accepted since boot
  fails,               \* consecutive invalid polls since boot / last acceptance
  linkHeld,            \* the link has stayed up since the last acceptance
  shown                \* the frame transmitted last: what the display shows

txVars == << prog, call, edges, latchTrace, ncalls, pending >>
encVars == << encIn >>
timerVars ==
  << since5Min, sinceSecond, sinceWifiCheck, sinceReconnect, sinceAnimToggle >>
loopVars ==
  << currentTemp, animate_idx, isThermometerError, firstRun, retryCount,
     wasWifiConnected >>
ghostVars == << fetched, accepted, fails, linkHeld, shown >>
sessVars ==
  << pc, linkUp, loopVars, animState, timerVars, resp, ghostVars >>
vars ==
  << pins, prog, call, edges, latchTrace, ncalls, pending, act, sent, encIn,
     sessVars >>

\* what the display shows before anything has been transmitted
NoFrame == Frame(-1, -1, FALSE, FALSE)

NoCall == [digit1 |-> << >>, digit2 |-> << >>, minus |-> FALSE, celsius |-> FALSE]

\* State after setup(): initPins has released the three lines
Init ==
  /\ pins = RunOps(initPins, [p \in PinSet |-> ResetPin])
  /\ prog = << >>
  /\ call = NoCall
  /\ edges = << >>
  /\ latchTrace = << >>
  /\ ncalls = 0
  /\ pending = << >>
  /\ act = "setup"
  /\ sent = << >>
  /\ encIn = [num |-> 0, data |-> "", idx |-> 0]
  /\ pc = "handleClient"
  /\ linkUp = FALSE
  /\ currentTemp = 0
  /\ animate_idx = 0
  /\ isThermometerError = FALSE
  /\ firstRun = TRUE
  /\ retryCount = 4
  /\ wasWifiConnected = FALSE
  /\ animState = FALSE
  /\ since5Min = Sat(SETUP_DELAY, POLL_INTERVAL)
  /\ sinceSecond = Sat(SETUP_DELAY, SECOND_INTERVAL)
  /\ sinceWifiCheck = Sat(SETUP_DELAY, WIFI_CHECK_INTERVAL)
  /\ sinceReconnect = Sat(SETUP_DELAY, WIFI_RECONNECT_INTERVAL)
  /\ sinceAnimToggle = Sat(SETUP_DELAY, WIFI_ANIM_INTERVAL)
  /\ resp = 0
  /\ fetched = << >>
  /\ accepted = FALSE
  /\ fails = 0
  /\ linkHeld = FALSE
  /\ shown = NoFrame

(***************************************************************************)
(* Transmitter, one primitive call per step                                *)
(***************************************************************************)
Rows1 == {frame1[i] : i \in 0..10}
Rows2 == {frame2[i] : i \in 0..10}

\* What an observer of the lines records when the pins go from ps to qs
Observe(ps, qs) ==
  /\ edges' = IF Level(ps, PIN_CLOCK) = 0 /\ Level(qs, PIN_CLOCK) = 1
                THEN Append(edges, Level(qs, PIN_DATA))
                ELSE edges
  /\ latchTrace' = IF LineState(qs, PIN_LATCH) # LineState(ps, PIN_LATCH)
                     THEN Append(latchTrace,
                                 [st |-> LineState(qs, PIN_LATCH), us |-> 0])
                     ELSE latchTrace

\* entry of sendBitsArray
SendBitsArrayCall ==
  /\ prog = << >>
  /\ \E d1 \in Rows1, d2 \in Rows2, m \in BOOLEAN, c \in BOOLEAN :
       /\ prog' = sendBitsArray(d1, d2, m, c)
       /\ call' = [digit1 |-> d1, digit2 |-> d2, minus |-> m, celsius |-> c]
  /\ edges' = << >>
  /\ latchTrace' = << [st |-> LineState(pins, PIN_LATCH), us |-> 0] >>
  /\ ncalls' = IF ncalls < MaxCalls THEN ncalls + 1 ELSE ncalls
  /\ act' = "sendBitsArray"
  /\ UNCHANGED << pins, pending, sent, encIn, sessVars >>

PinModeStep ==
  /\ prog # << >>
  /\ Head(prog).op = "pinMode"
  /\ pins' = ApplyOp(Head(prog), pins)
  /\ prog' = Tail(prog)
  /\ Observe(pins, pins')
  /\ act' = "pinMode"
  /\ UNCHANGED << call, ncalls, pending, sent, encIn, sessVars >>

DigitalWriteStep ==
  /\ prog # << >>
  /\ Head(prog).op = "digitalWrite"
  /\ pins' = ApplyOp(Head(prog), pins)
  /\ prog' = Tail(prog)
  /\ Observe(pins, pins')
  /\ act' = "digitalWrite"
  /\ UNCHANGED << call, ncalls, pending, sent, encIn, sessVars >>

DelayStep ==
  /\ prog # << >>
  /\ Head(prog).op = "delayMicroseconds"
  /\ prog' = Tail(prog)
  /\ latchTrace' = [latchTrace EXCEPT ![Len(latchTrace)].us = @ + Head(prog).us]
  /\ act' = "delayMicroseconds"
  /\ UNCHANGED << pins, call, edges, ncalls, pending, sent, encIn, sessVars >>

NextTx == SendBitsArrayCall \/ PinModeStep \/ DigitalWriteStep \/ DelayStep

SpecTx == Init /\ [][NextTx]_vars

\* The transmitter is idle after at least one complete transmission
TxDone == prog = << >> /\ ncalls > 0

\* Pins as a complete transmission leaves them
TxEffect == Effect(sendBitsArray(frame1[0], frame2[0], FALSE, FALSE))

AfterTx(ps) == ApplyEffect(TxEffect, ps)

RECURSIVE Transmit(_, _)
Transmit(frames, ps) ==
  IF frames = << >> THEN ps ELSE Transmit(Tail(frames), AfterTx(ps))

(***************************************************************************)
(* Encoders applied to inputs drawn from bounded sets                      *)
(***************************************************************************)
Nums == (-MaxNum)..MaxNum

EncSetOutdoorDisplay ==
  \E num \in Nums :
    /\ encIn' = [num |-> num, data |-> "", idx |-> 0]
    /\ sent' = setOutdoorDisplay(num)
    /\ pins' = Transmit(sent', pins)
    /\ act' = "setOutdoorDisplay"
    /\ UNCHANGED << txVars, sessVars >>

EncSetOutdoorDisplayStr ==
  \E data \in Tokens \cup {"", "00", "null"} :
    /\ encIn' = [num |-> 0, data |-> data, idx |-> 0]
    /\ sent' = setOutdoorDisplayStr(data)
    /\ pins' = Transmit(sent', pins)
    /\ act' = "setOutdoorDisplayStr"
    /\ UNCHANGED << txVars, sessVars >>

EncAnimate ==
  \E idx \in 0..11 :
    /\ encIn' = [num |-> 0, data |-> "", idx |-> idx]
    /\ sent' = setOutdoorDisplay_animate(idx)
    /\ pins' = Transmit(sent', pins)
    /\ act' = "setOutdoorDisplay_animate"
    /\ UNCHANGED << txVars, sessVars >>

NextEnc == EncSetOutdoorDisplay \/ EncSetOutdoorDisplayStr \/ EncAnimate

SpecEnc == Init /\ [][NextEnc]_vars

(***************************************************************************)
(* Display session: loop() and what it calls                               *)
(***************************************************************************)
\* float -> int conversion at the call setOutdoorDisplay(currentTemp):
\* truncation toward zero
FloatToInt(t) ==
  IF t >= 0 THEN t \div FloatScale ELSE -((-t) \div FloatScale)

\* int -> float conversion of  currentTemp = temp
IntToFloat(n) == n * FloatScale

\* validateTemp without the upper limit
validateTemp_noUpper(t) == t >= -60 * FloatScale

\* validateTemp without the lower limit
validateTemp_noLower(t) == t <= 99 * FloatScale

\* validateTemp with the lower limit one degree too low
validateTemp_wide(t) == t >= -61 * FloatScale /\ t <= 99 * FloatScale

\* validateTemp: -60.0f <= t <= 99.0f
validateTemp(t) == t >= -60 * FloatScale /\ t <= 99 * FloatScale

Statuses ==
  { "WL_CONNECTED", "WL_NO_SSID_AVAIL", "WL_CONNECT_FAILED",
    "WL_CONNECTION_LOST", "WL_DISCONNECTED", "WL_IDLE_STATUS", "WL_NO_SHIELD" }

\* error returns of getOutdoorTemperature
ERR_HTTP == -101
ERR_NO_WIFI == -102

\* readings the HTTP fetch can deliver while the link is up: the HTTP error
\* code and the values on and just outside the two limits
Readings ==
  { ERR_HTTP * FloatScale, -60 * FloatScale - 1, -60 * FloatScale,
    99 * FloatScale, 99 * FloatScale + 1 }

\* getOutdoorTemperature: what it can return under the given link status
getOutdoorTemperature(status) ==
  IF status # "WL_CONNECTED" THEN { ERR_NO_WIFI * FloatScale } ELSE Readings

\* WiFi.status(): WL_CONNECTED while the link is up, else one of the others
Status(up) == IF up THEN { "WL_CONNECTED" } ELSE Statuses \ { "WL_CONNECTED" }

\* values of the temp argument of /set requests
SetArgs == { -100, -60, 100 }

\* switch (st) of WifiCheck
StatusToken(st) ==
  CASE st = "WL_NO_SSID_AVAIL" -> "01"
    [] st = "WL_CONNECT_FAILED" -> "02"
    [] st = "WL_CONNECTION_LOST" -> "03"
    [] st = "WL_DISCONNECTED" -> "04"
    [] st = "WL_IDLE_STATUS" -> "05"
    [] OTHER -> "99"

\* the timers after d more milliseconds
Advance(d) ==
  /\ since5Min' = Sat(since5Min + d, POLL_INTERVAL)
  /\ sinceSecond' = Sat(sinceSecond + d, SECOND_INTERVAL)
  /\ sinceWifiCheck' = Sat(sinceWifiCheck + d, WIFI_CHECK_INTERVAL)
  /\ sinceReconnect' = Sat(sinceReconnect + d, WIFI_RECONNECT_INTERVAL)
  /\ sinceAnimToggle' = Sat(sinceAnimToggle + d, WIFI_ANIM_INTERVAL)

\* an operation of the session transmits the frames fs
Sends(fs) ==
  /\ sent' = fs
  /\ shown' = IF fs = << >> THEN shown ELSE fs[Len(fs)]
  /\ pins' = Transmit(fs, pins)
  /\ UNCHANGED << txVars, encVars >>

\* server.handleClient() with no request pending
ServerIdle ==
  /\ pc = "handleClient"
  /\ pc' = "WifiCheck"
  /\ resp' = 0
  /\ act' = "handleClient"
  /\ Sends(<< >>)
  /\ fetched' = << >>
  /\ UNCHANGED << linkUp, loopVars, animState, timerVars, accepted, fails,
                  linkHeld >>

\* server.handleClient() serving  GET /
ServerHandleRoot ==
  /\ pc = "handleClient"
  /\ linkUp
  /\ pc' = "WifiCheck"
  /\ resp' = 200
  /\ act' = "server_handleRoot"
  /\ Sends(<< >>)
  /\ fetched' = << >>
  /\ UNCHANGED << linkUp, loopVars, animState, timerVars, accepted, fails,
                  linkHeld >>

\* server.handleClient() serving  GET /set  (hasArg: is there a temp argument)
ServerHandleSet ==
  /\ pc = "handleClient"
  /\ linkUp
  /\ pc' = "WifiCheck"
  /\ act' = "server_handleSet"
  /\ \E hasArg \in BOOLEAN, temp \in SetArgs :
       IF ~hasArg THEN
         /\ resp' = 400
         /\ Sends(<< >>)
         /\ UNCHANGED currentTemp
       ELSE IF temp < -99 \/ temp > 99 THEN
         /\ resp' = 400
         /\ Sends(<< >>)
         /\ UNCHANGED currentTemp
       ELSE
         /\ currentTemp' = IntToFloat(temp)
         /\ Sends(setOutdoorDisplay(FloatToInt(currentTemp')))
         /\ resp' = 302
  /\ fetched' = << >>
  /\ UNCHANGED << linkUp, animate_idx, isThermometerError, firstRun,
                  retryCount, wasWifiConnected, animState, timerVars,
                  accepted, fails, linkHeld >>

\* WifiCheck()
WifiCheck ==
  /\ pc = "WifiCheck"
  /\ pc' = "link"
  /\ act' = "WifiCheck"
  /\ LET down == ~linkUp
         toggle == down /\ sinceAnimToggle >= WIFI_ANIM_INTERVAL
         state1 == IF toggle THEN ~animState ELSE animState
         blink == IF ~toggle THEN << >>
                  ELSE IF state1 THEN setOutdoorDisplayStr("--")
                  ELSE setOutdoorDisplayStr("NULL")
         due == sinceWifiCheck >= WIFI_CHECK_INTERVAL
         reconnect == due /\ down /\ sinceReconnect >= WIFI_RECONNECT_INTERVAL
     IN /\ animState' = state1
        /\ IF ~reconnect THEN
             /\ Sends(blink)
             /\ sinceAnimToggle' = IF toggle THEN 0 ELSE sinceAnimToggle
             /\ sinceWifiCheck' = IF due THEN 0 ELSE sinceWifiCheck
             /\ UNCHANGED << linkUp, since5Min, sinceSecond, sinceReconnect >>
           ELSE
             \E st \in Statuses :
               LET failed == st # "WL_CONNECTED"
                   d == ANIMATE_START_MS + 1500 + 500
                          + (IF failed THEN 2000 ELSE 0)
               IN /\ linkUp' = ~failed
                  /\ Sends(blink \o animateStartLCD \o setOutdoorDisplayStr("NULL")
                             \o (IF failed
                                   THEN setOutdoorDisplayStr(StatusToken(st))
                                   ELSE << >>))
                  /\ since5Min' = Sat(since5Min + d, POLL_INTERVAL)
                  /\ sinceSecond' = Sat(sinceSecond + d, SECOND_INTERVAL)
                  /\ sinceWifiCheck' = Sat(d, WIFI_CHECK_INTERVAL)
                  /\ sinceReconnect' = Sat(d, WIFI_RECONNECT_INTERVAL)
                  /\ sinceAnimToggle' =
                       Sat((IF toggle THEN 0 ELSE sinceAnimToggle) + d,
                           WIFI_ANIM_INTERVAL)
  /\ resp' = 0
  /\ fetched' = << >>
  /\ UNCHANGED << loopVars, accepted, fails, linkHeld >>

\* the link test without  firstRun = true  on the rising edge
LinkCheck_noRefetch ==
  /\ pc = "link"
  /\ act' = "link"
  /\ LET isWifiConnected == linkUp
         rising == ~wasWifiConnected /\ isWifiConnected
     IN /\ Sends(IF rising THEN animateStartLCD ELSE << >>)
        /\ Advance(IF rising THEN ANIMATE_START_MS ELSE 0)
        /\ wasWifiConnected' = isWifiConnected
        /\ pc' = IF isWifiConnected THEN "poll" ELSE "handleClient"
  /\ resp' = 0
  /\ fetched' = << >>
  /\ UNCHANGED << linkUp, currentTemp, animate_idx, isThermometerError,
                  firstRun, retryCount, animState, accepted, fails, linkHeld >>

\* loop(): the link test, lines 93-102
LinkCheck ==
  /\ pc = "link"
  /\ act' = "link"
  /\ LET isWifiConnected == linkUp
         rising == ~wasWifiConnected /\ isWifiConnected
     IN /\ firstRun' = IF rising THEN TRUE ELSE firstRun
        /\ Sends(IF rising THEN animateStartLCD ELSE << >>)
        /\ Advance(IF rising THEN ANIMATE_START_MS ELSE 0)
        /\ wasWifiConnected' = isWifiConnected
        /\ pc' = IF isWifiConnected THEN "poll" ELSE "handleClient"
  /\ resp' = 0
  /\ fetched' = << >>
  /\ UNCHANGED << linkUp, currentTemp, animate_idx, isThermometerError,
                  retryCount, animState, accepted, fails, linkHeld >>

\* the threshold that fails must have reached before the error animation runs
RETRY_LIMIT == 3

\* loop(): the poll, lines 104-131
Poll ==
  /\ pc = "poll"
  /\ pc' = "animate"
  /\ act' = "poll"
  /\ IF since5Min >= POLL_INTERVAL \/ firstRun THEN
       \E st \in Status(linkUp) :
       \E t1 \in getOutdoorTemperature(st), t2 \in getOutdoorTemperature(st) :
         LET ok1 == validateTemp(t1)
             ok2 == validateTemp(t2)
             t == IF ok1 THEN t1 ELSE t2
             error == ~ok1 /\ ~ok2
         IN /\ firstRun' = FALSE
            /\ isThermometerError' = error
            /\ fetched' = IF ok1 THEN << t1 >> ELSE << t1, t2 >>
            /\ IF ~error THEN
                 /\ currentTemp' = t
                 /\ animate_idx' = 0
                 /\ retryCount' = 0
                 /\ Sends(setOutdoorDisplay(FloatToInt(currentTemp')))
                 /\ accepted' = TRUE
                 /\ fails' = 0
                 /\ linkHeld' = TRUE
               ELSE
                 /\ retryCount' = Sat(retryCount + 1, MaxRetry)
                 /\ Sends(<< >>)
                 /\ fails' = Sat(fails + 1, MaxRetry)
                 /\ UNCHANGED << currentTemp, animate_idx, accepted, linkHeld >>
            /\ since5Min' = 0
     ELSE
       /\ Sends(<< >>)
       /\ fetched' = << >>
       /\ UNCHANGED << loopVars, since5Min, accepted, fails, linkHeld >>
  /\ resp' = 0
  /\ UNCHANGED << linkUp, wasWifiConnected, animState, sinceSecond,
                  sinceWifiCheck, sinceReconnect, sinceAnimToggle >>

\* the animation condition with a threshold the counter has to pass twice
AnimateDue_late(error, tick, retry) == error /\ tick /\ retry > 2 * RETRY_LIMIT

\* the animation condition with the comparison  retryCount >= 3
AnimateDue_early(error, tick, retry) == error /\ tick /\ retry >= RETRY_LIMIT

\* isThermometerError && everySecond() && retryCount > 3, with the second
\* operand standing for the value everySecond() returns
AnimateDue(error, tick, retry) == error /\ tick /\ retry > RETRY_LIMIT

\* the error animation with the index wrapping one step late
Animate_wrap13 ==
  /\ pc = "animate"
  /\ pc' = "handleClient"
  /\ act' = "animate"
  /\ LET tick == isThermometerError /\ sinceSecond >= SECOND_INTERVAL
     IN /\ sinceSecond' = IF tick THEN 0 ELSE sinceSecond
        /\ IF AnimateDue(isThermometerError, tick, retryCount) THEN
             /\ Sends(setOutdoorDisplay_animate(animate_idx))
             /\ animate_idx' = (animate_idx + 1) % 13
           ELSE
             /\ Sends(<< >>)
             /\ UNCHANGED animate_idx
  /\ resp' = 0
  /\ fetched' = << >>
  /\ UNCHANGED << linkUp, currentTemp, isThermometerError, firstRun, retryCount,
                  wasWifiConnected, animState, since5Min, sinceWifiCheck,
                  sinceReconnect, sinceAnimToggle, accepted, fails, linkHeld >>

\* the error animation that never moves its index on
Animate_stuck ==
  /\ pc = "animate"
  /\ pc' = "handleClient"
  /\ act' = "animate"
  /\ LET tick == isThermometerError /\ sinceSecond >= SECOND_INTERVAL
     IN /\ sinceSecond' = IF tick THEN 0 ELSE sinceSecond
        /\ Sends(IF AnimateDue(isThermometerError, tick, retryCount)
                 THEN setOutdoorDisplay_animate(animate_idx) ELSE << >>)
        /\ UNCHANGED animate_idx
  /\ resp' = 0
  /\ fetched' = << >>
  /\ UNCHANGED << linkUp, currentTemp, isThermometerError, firstRun, retryCount,
                  wasWifiConnected, animState, since5Min, sinceWifiCheck,
                  sinceReconnect, sinceAnimToggle, accepted, fails, linkHeld >>

\* loop(): the error animation, lines 133-138
Animate ==
  /\ pc = "animate"
  /\ pc' = "handleClient"
  /\ act' = "animate"
  /\ LET tick == isThermometerError /\ sinceSecond >= SECOND_INTERVAL
     IN /\ sinceSecond' = IF tick THEN 0 ELSE sinceSecond
        /\ IF AnimateDue(isThermometerError, tick, retryCount) THEN
             /\ Sends(setOutdoorDisplay_animate(animate_idx))
             /\ animate_idx' = (animate_idx + 1) % 12
           ELSE
             /\ Sends(<< >>)
             /\ UNCHANGED animate_idx
  /\ resp' = 0
  /\ fetched' = << >>
  /\ UNCHANGED << linkUp, currentTemp, isThermometerError, firstRun, retryCount,
                  wasWifiConnected, animState, since5Min, sinceWifiCheck,
                  sinceReconnect, sinceAnimToggle, accepted, fails, linkHeld >>

\* the link comes up or goes down (the WiFi stack runs beside loop())
LinkChange ==
  /\ pc \in { "handleClient", "poll" }
  /\ linkUp' = ~linkUp
  /\ linkHeld' = FALSE
  /\ act' = "LinkChange"
  /\ Sends(<< >>)
  /\ resp' = 0
  /\ fetched' = << >>
  /\ UNCHANGED << pc, loopVars, animState, timerVars, accepted, fails >>

\* Time passes between two passes of loop(): by nothing (the next pass
\* follows at once), by one step, or by a jump over the rest of the poll
\* interval.  Steps are taken while the link is up, the reconnect timer has
\* run out and the poll timer is within the window of its start or of its
\* deadline.  The step divides every delay and interval of
\* the program that is longer than it, so the timers stay on a grid.
Step == ANIMATE_START_MS \div 3
Window == WindowSteps * Step
Jump == POLL_INTERVAL - Window

NearPoll == since5Min < Window \/ since5Min >= POLL_INTERVAL - Window

StepOK ==
  linkUp /\ NearPoll /\ sinceReconnect >= WIFI_RECONNECT_INTERVAL

Elapse ==
  /\ pc = "handleClient"
  /\ \E d \in { Step, Jump } :
       /\ d = Step => StepOK
       /\ Advance(d)
  /\ act' = "Elapse"
  /\ Sends(<< >>)
  /\ resp' = 0
  /\ fetched' = << >>
  /\ UNCHANGED << pc, linkUp, loopVars, animState, accepted, fails, linkHeld >>

Next ==
  \/ ServerIdle
  \/ ServerHandleRoot
  \/ ServerHandleSet
  \/ WifiCheck
  \/ LinkCheck
  \/ Poll
  \/ Animate
  \/ LinkChange
  \/ Elapse

Spec == Init /\ [][Next]_vars

\* The session from startup with the link down, and the time between two
\* passes followed step by step until a reconnect attempt of WifiCheck brings
\* the link up, so that the blinking of WifiCheck and its reconnect attempts
\* are seen at their cadence
ElapseDown ==
  /\ pc = "handleClient"
  /\ ~linkUp
  /\ Advance(Step)
  /\ act' = "Elapse"
  /\ Sends(<< >>)
  /\ resp' = 0
  /\ fetched' = << >>
  /\ UNCHANGED << pc, linkUp, loopVars, animState, accepted, fails, linkHeld >>

NextDown ==
  \/ ServerIdle
  \/ ServerHandleRoot
  \/ ServerHandleSet
  \/ WifiCheck
  \/ LinkCheck
  \/ Poll
  \/ Animate
  \/ ElapseDown

SpecDown == Init /\ [][NextDown]_vars

\* The session under the scheduling of the program.  Time passes between
\* two passes of loop() by one second while the link is up and the poll
\* timer is within the window of its start or of its deadline, or by a whole
\* poll interval; the link comes up in a reconnect attempt of WifiCheck and
\* stays up.
ElapseLive ==
  /\ pc = "handleClient"
  /\ \E d \in { SECOND_INTERVAL, POLL_INTERVAL } :
       /\ d = SECOND_INTERVAL =>
            /\ linkUp
            /\ \/ since5Min < WindowSteps * SECOND_INTERVAL
               \/ since5Min >= POLL_INTERVAL - WindowSteps * SECOND_INTERVAL
       /\ Advance(d)
  /\ act' = "Elapse"
  /\ Sends(<< >>)
  /\ resp' = 0
  /\ fetched' = << >>
  /\ UNCHANGED << pc, linkUp, loopVars, animState, accepted, fails, linkHeld >>

NextLive ==
  \/ ServerIdle
  \/ ServerHandleRoot
  \/ ServerHandleSet
  \/ WifiCheck
  \/ LinkCheck
  \/ Poll
  \/ Animate
  \/ ElapseLive

\* The Arduino core calls loop() again and again, so every step of a pass
\* that can be taken is taken (weak fairness), and the clock millis() goes
\* on; the model lets time pass only between two passes, where ElapseLive is
\* enabled again and again but not continuously, hence strong fairness.
HandleClient == ServerIdle \/ ServerHandleRoot \/ ServerHandleSet

Fairness ==
  /\ WF_vars(HandleClient)
  /\ WF_vars(WifiCheck)
  /\ WF_vars(LinkCheck)
  /\ WF_vars(Poll)
  /\ WF_vars(Animate)
  /\ SF_vars(ElapseLive)

SpecLive == Init /\ [][NextLive]_vars /\ Fairness

(***************************************************************************)
(* Control flow of loop() with the transmissions run primitive by primitive *)
(***************************************************************************)
\* The rows sendBitsArray is given for the glyph index i: the row of the
\* table where the table has one; otherwise one of two rows, the one with
\* the most segments lit and the one with none
GlyphRows(tbl, i) ==
  IF i \in DOMAIN tbl THEN { tbl[i] } ELSE { tbl[8], tbl[DISPLAY_NULL_IDX] }

\* accepted arguments of /set and accepted readings, as the int handed to
\* setOutdoorDisplay
ShownValues ==
  { temp \in SetArgs : temp >= -99 /\ temp <= 99 }
    \cup { FloatToInt(t) : t \in { r \in Readings : validateTemp(r) } }

\* The block of loop() at position p hands the frames fs to the transmitter
\* and goes on to position q once they are transmitted.  loop() is the only
\* thread: a block starts when the one before it has returned.
Call(p, q, fs) ==
  /\ pc = p
  /\ prog = << >>
  /\ pending = << >>
  /\ pending' = fs
  /\ pc' = q
  /\ act' = p
  /\ sent' = fs
  /\ UNCHANGED << pins, prog, call, edges, latchTrace, ncalls, encIn, linkUp,
                  loopVars, animState, timerVars, resp, ghostVars >>

\* the handlers a request can run without the guard of the single thread
CallHandleClient_preempting ==
  \E fs \in { << >> } \cup { setOutdoorDisplay(v) : v \in ShownValues } :
    /\ pc = "handleClient"
    /\ pending' = fs
    /\ pc' = "WifiCheck"
    /\ act' = "handleClient"
    /\ sent' = fs
    /\ prog' = << >>
    /\ UNCHANGED << pins, call, edges, latchTrace, ncalls, encIn, linkUp,
                    loopVars, animState, timerVars, resp, ghostVars >>

\* server.handleClient(): nothing, or server_handleSet with a valid value
CallHandleClient ==
  \E fs \in { << >> } \cup { setOutdoorDisplay(v) : v \in ShownValues } :
    Call("handleClient", "WifiCheck", fs)

\* WifiCheck(): nothing, a blink, or a reconnect attempt that fails
CallWifiCheck ==
  \E fs \in { << >>, setOutdoorDisplayStr("--"), setOutdoorDisplayStr("NULL"),
              animateStartLCD \o setOutdoorDisplayStr("NULL")
                \o setOutdoorDisplayStr("04") } :
    Call("WifiCheck", "link", fs)

\* the link test: the connecting animation on a rising edge
CallLinkCheck ==
  \E fs \in { << >>, animateStartLCD } :
    \E q \in { "poll", "handleClient" } :
      Call("link", q, fs)

\* the poll: an accepted reading is transmitted
CallPoll ==
  \E fs \in { << >> } \cup { setOutdoorDisplay(v) : v \in ShownValues } :
    Call("poll", "animate", fs)

\* the error animation
CallAnimate ==
  \E fs \in { << >>, setOutdoorDisplay_animate(animate_idx) } :
    Call("animate", "handleClient", fs)

\* entry of sendBitsArray for the next frame of the running operation
SendBitsArrayEntry ==
  /\ prog = << >>
  /\ pending # << >>
  /\ LET f == Head(pending)
     IN \E d1 \in GlyphRows(frame1, f.d1), d2 \in GlyphRows(frame2, f.d2) :
          /\ prog' = sendBitsArray(d1, d2, f.minus, f.celsius)
          /\ call' = [digit1 |-> d1, digit2 |-> d2,
                      minus |-> f.minus, celsius |-> f.celsius]
  /\ pending' = Tail(pending)
  /\ edges' = << >>
  /\ latchTrace' = << [st |-> LineState(pins, PIN_LATCH), us |-> 0] >>
  /\ ncalls' = IF ncalls < MaxCalls THEN ncalls + 1 ELSE ncalls
  /\ act' = "sendBitsArray"
  /\ UNCHANGED << pins, sent, encIn, sessVars >>

NextCall ==
  \/ CallHandleClient
  \/ CallWifiCheck
  \/ CallLinkCheck
  \/ CallPoll
  \/ CallAnimate
  \/ SendBitsArrayEntry
  \/ PinModeStep
  \/ DigitalWriteStep
  \/ DelayStep

SpecCall == Init /\ [][NextCall]_vars

(***************************************************************************)
(* Properties of the transmitter (SpecTx)                                  *)
(***************************************************************************)
\* Every complete transmission leaves the pins as AfterTx says, whatever
\* the frame and whatever the pins were before
TxLeavesAfterTx == TxDone => pins = AfterTx(pins)

\* C1: in every call of sendBitsArray, the first one after initPins
\* included, the clock line rises exactly 16 times and the data-line level
\* at the k-th rise is the k-th bit of the frame (7 + 7 + sign + unit).
C1_SixteenEdgesInOrder ==
  TxDone =>
    /\ Len(edges) = 16
    /\ edges = FrameBits(call.digit1, call.digit2, call.minus, call.celsius)

\* What the code does in the first call: the clock line is still released
\* from initPins, its first release is no rise, and bit digit1[0] is lost
C1_FirstCallLosesBit ==
  (TxDone /\ ncalls = 1) =>
    edges = Tail(FrameBits(call.digit1, call.digit2, call.minus, call.celsius))

\* C6: every line is either driven low or released; no pin is ever an
\* output with its output register high, the state between pinMode(OUTPUT)
\* and digitalWrite(LOW) of setPinLow included.
C6_NeverDrivenHigh ==
  \A p \in PinSet : Released(pins, p) \/ DrivenLow(pins, p)

\* witness of C6: setPinLow has switched a pin to output and has not yet
\* written LOW
C6_Witness ==
  /\ prog # << >>
  /\ Head(prog).op = "digitalWrite"
  /\ pins[Head(prog).pin].mode = "OUTPUT"
  /\ act = "pinMode"

LatchStates == [i \in 1..Len(latchTrace) |-> latchTrace[i].st]

\* C7: after the 16th bit the latch line goes (driven low) -> released for a
\* short dwell -> driven low for a longer dwell -> released, and it is left
\* released when the latch pulse ends.
C7_LatchPulseEndsReleased ==
  TxDone =>
    LET n == Len(latchTrace) IN
      /\ n >= 4
      /\ SubSeq(LatchStates, n - 3, n) = << "low", "released", "low", "released" >>
      /\ latchTrace[n - 2].us < latchTrace[n - 1].us
      /\ Released(pins, PIN_LATCH)

\* What the code does: released 2 us, low 8 us, released 4 us, then driven
\* low and left driven low
C7_LatchPulseOfTheCode ==
  TxDone =>
    LET n == Len(latchTrace) IN
      /\ n >= 5
      /\ SubSeq(latchTrace, n - 3, n) =
           << [st |-> "released", us |-> 2], [st |-> "low", us |-> 8],
              [st |-> "released", us |-> 4], [st |-> "low", us |-> 0] >>
      /\ latchTrace[n - 4].st = "low"
      /\ DrivenLow(pins, PIN_LATCH)

\* C8: whenever no transmission is running the data line is released,
\* whatever the last bit sent was.
C8_DataReleasedWhenIdle == prog = << >> => Released(pins, PIN_DATA)

\* witness of C8: a transmission whose last bit drove the data line low has
\* completed
C8_Witness ==
  /\ TxDone
  /\ ~call.celsius
  /\ act = "pinMode"
  /\ Released(pins, PIN_DATA)

(***************************************************************************)
(* Properties of the encoders (SpecEnc)                                    *)
(***************************************************************************)
InRange(v) == v >= -99 /\ v <= 99

NumericCall == act = "setOutdoorDisplay"

\* Reading of a numeric frame by the reference rule: the minus glyph in
\* position 1 makes a single-digit negative, the blank counts as tens 0
Decode(f) ==
  IF f.d1 = DISPLAY_SIGN_MINUS_IDX THEN -f.d2
  ELSE LET tens == IF f.d1 = DISPLAY_NULL_IDX THEN 0 ELSE f.d1
           mag == 10 * tens + f.d2
       IN IF f.minus THEN -mag ELSE mag

\* C2: for v in [-99, 99] the tuple (index 1, index 2, sign, unit) that
\* setOutdoorDisplay(int) transmits decodes back to v, and no other value of
\* the range is encoded by the same tuple.
C2_RoundTrip ==
  (NumericCall /\ InRange(encIn.num)) =>
    /\ Len(sent) = 1
    /\ Decode(sent[1]) = encIn.num
    /\ \A w \in -99..99 : setOutdoorDisplay(w) = sent => w = encIn.num

\* witness of C2: a single-digit negative has been encoded
C2_Witness ==
  /\ NumericCall
  /\ encIn.num = -5
  /\ Len(sent) = 1
  /\ sent[1].d1 = DISPLAY_SIGN_MINUS_IDX

\* C3: for v outside [-99, 99] setOutdoorDisplay(int) rejects v: it sends no
\* frame (and so changes no line).
C3_RejectsOutOfRange ==
  (NumericCall /\ ~InRange(encIn.num)) => sent = << >>

\* C4: the reference rule.  -9..-1: minus glyph, |v|, sign bit clear;
\* -99..-10: tens digit, units digit, sign bit set; 0..9: blank, sign bit
\* clear; 10..99: tens digit, sign bit clear.
C4_ReferenceRule ==
  (NumericCall /\ InRange(encIn.num)) =>
    LET v == encIn.num
        a == IF v < 0 THEN -v ELSE v
        f == sent[1]
    IN /\ Len(sent) = 1
       /\ f.d2 = a % 10
       /\ (v >= -9 /\ v <= -1) =>
            (f.d1 = DISPLAY_SIGN_MINUS_IDX /\ ~f.minus)
       /\ (v <= -10) => (f.d1 = a \div 10 /\ f.minus)
       /\ (v >= 0 /\ v <= 9) => (f.d1 = DISPLAY_NULL_IDX /\ ~f.minus)
       /\ (v >= 10) => (f.d1 = a \div 10 /\ ~f.minus)

\* witness of C4: a two-digit negative has been encoded with the sign bit
C4_Witness ==
  /\ NumericCall
  /\ encIn.num = -42
  /\ sent = << Frame(4, 2, TRUE, TRUE) >>

\* C5: the unit bit is set in every frame of a numeric reading and clear in
\* every frame of a fixed token ("NULL", "--", "01".."06", "99").
C5_UnitBitOnlyOnNumbers ==
  /\ (NumericCall /\ InRange(encIn.num)) =>
       (Len(sent) = 1 /\ sent[1].celsius)
  /\ (act = "setOutdoorDisplayStr" /\ encIn.data \in Tokens) =>
       (Len(sent) = 1 /\ ~sent[1].celsius)

\* What the code does: the unit bit is set for numbers and for the two
\* fallback glyphs, clear for the status codes
C5_UnitBitOfTheCode ==
  /\ (NumericCall /\ InRange(encIn.num)) =>
       (Len(sent) = 1 /\ sent[1].celsius)
  /\ (act = "setOutdoorDisplayStr" /\ encIn.data \in Tokens) =>
       (Len(sent) = 1 /\ (sent[1].celsius <=> encIn.data \in {"NULL", "--"}))

\* the encoder call of the step before was setOutdoorDisplay_animate
AnimateCall == act = "setOutdoorDisplay_animate"

\* C23: the animation index i selects, for both digit positions, entry i of
\* the animation block, which starts after the ten digits and three reserved
\* symbols, at table index 13; the sign bit and the unit bit are clear.
C23_AnimationBlockAt13 ==
  AnimateCall =>
    sent = << Frame(13 + encIn.idx, 13 + encIn.idx, FALSE, FALSE) >>

\* What the code does: both digit positions take table index 12 + i
C23_AnimationBlockOfTheCode ==
  AnimateCall =>
    /\ Len(sent) = 1
    /\ sent[1].d1 = 12 + encIn.idx
    /\ sent[1].d2 = sent[1].d1
    /\ ~sent[1].minus
    /\ ~sent[1].celsius

(***************************************************************************)
(* Properties of the display session (Spec)                                *)
(***************************************************************************)
\* a frame of the rotating error animation
IsAnimFrame(f) == f.d1 >= 12

HasAnimFrame(fs) == \E i \in 1..Len(fs) : IsAnimFrame(fs[i])

\* a reading outside [-60, 99] degrees (the error codes of a failed fetch
\* are such readings)
Invalid(t) == t < -60 * FloatScale \/ t > 99 * FloatScale

\* a reading has been accepted, the link has been up ever since, and the
\* number of polls that failed since then is in lo..hi
SinceAccepted(lo, hi) == accepted /\ linkHeld /\ fails >= lo /\ fails <= hi

\* C9: after a reading has been accepted and while the link stays up, no
\* frame of the error animation is transmitted as long as fewer than 4
\* consecutive polls have failed; once 4 have failed, the pass of loop() that
\* finds the one-second tick due transmits the animation frame animate_idx.
C9_FailureCounterPolicy ==
  /\ [](SinceAccepted(0, 3) => ~HasAnimFrame(sent))
  /\ [][(SinceAccepted(4, MaxRetry) /\ pc = "animate"
           /\ sinceSecond >= SECOND_INTERVAL /\ pc' # pc)
          => (sent' = setOutdoorDisplay_animate(animate_idx)
              /\ sinceSecond' = 0)]_vars

\* the first animation frame goes out after the 4th failed poll in a row
C9_Witness ==
  /\ SinceAccepted(4, 4)
  /\ act = "animate"
  /\ sent = setOutdoorDisplay_animate(0)
  /\ retryCount = 4

\* the poll of this step fetched, and every value it fetched is invalid
FailedPoll ==
  /\ pc = "poll"
  /\ act' = "poll"
  /\ fetched' # << >>
  /\ \A i \in 1..Len(fetched') : Invalid(fetched'[i])

\* C10: a poll whose fetched values are all invalid keeps currentTemp and
\* transmits nothing; it sets the error flag and adds exactly one to the
\* failure counter (below the cap MaxRetry of the model), and besides the
\* bookkeeping every poll does (firstRun cleared, poll timer restarted) it
\* changes nothing else.
C10_FailedPollEffects ==
  [][FailedPoll =>
       /\ currentTemp' = currentTemp
       /\ sent' = << >>
       /\ pins' = pins
       /\ isThermometerError'
       /\ retryCount < MaxRetry => retryCount' = retryCount + 1
       /\ retryCount' >= retryCount
       /\ firstRun' = FALSE
       /\ since5Min' = 0
       /\ UNCHANGED << animate_idx, wasWifiConnected, animState, linkUp,
                       sinceSecond, sinceWifiCheck, sinceReconnect,
                       sinceAnimToggle >>]_vars

\* a poll got an out-of-range value and then a failed fetch; the reading
\* accepted before is still there
C10_Witness ==
  /\ act = "poll"
  /\ fetched = << 99 * FloatScale + 1, ERR_HTTP * FloatScale >>
  /\ currentTemp = 99 * FloatScale
  /\ accepted
  /\ isThermometerError
  /\ retryCount = 1

\* the numeric frame of the reading currentTemp
ReadingFrame == setOutdoorDisplay(FloatToInt(currentTemp))[1]

\* loop() is between two passes and has seen the link up in the last one
SeenUp == pc = "handleClient" /\ linkUp /\ wasWifiConnected

\* C11: once a reading has been accepted, between the passes of loop() that
\* see the link up and as long as fewer than 4 polls in a row have failed,
\* the frame transmitted last is the numeric frame of the last reading.
C11_HoldsLastReading ==
  (accepted /\ SeenUp /\ fails < 4) => shown = ReadingFrame

\* What the code does: the last reading is on the display as long as the
\* link has stayed up since it was accepted
C11_HoldsWhileLinkHeld ==
  (accepted /\ linkHeld /\ fails < 4) => shown = ReadingFrame

\* the link test of this pass finds the link up after having seen it down
RisingEdge == pc = "link" /\ ~wasWifiConnected /\ linkUp

OverrideApplied == pc = "handleClient" /\ resp' = 302

\* C16: an applied override leaves the session as a poll that accepts the
\* same value does: the value is the last reading and its numeric frame is
\* transmitted, the error flag is clear, the failure counter and the
\* animation index are 0.
C16_OverrideLikeAcceptedPoll ==
  [][OverrideApplied =>
       /\ sent' = setOutdoorDisplay(FloatToInt(currentTemp'))
       /\ ~isThermometerError'
       /\ retryCount' = 0
       /\ animate_idx' = 0]_vars

\* What the code does: the override sets the reading and transmits its
\* frame, and leaves the error flag, the counter and the index as they are
C16_OverrideOfTheCode ==
  [][OverrideApplied =>
       /\ sent' = setOutdoorDisplay(FloatToInt(currentTemp'))
       /\ UNCHANGED << isThermometerError, retryCount, animate_idx, firstRun >>]_vars

\* C18 as stated: as long as no reading has been accepted since startup and
\* fewer than 4 polls in a row have failed, loop() transmits no frame of the
\* error animation.
C18_ThresholdFromStartup ==
  (~accepted /\ fails < 4 /\ act = "animate") => sent = << >>

\* C18 amended: as long as no reading has been accepted since startup,
\* loop() transmits no frame of the error animation before the first poll
\* has failed, and from the first failed poll on the pass that finds the
\* one-second tick due transmits the animation frame animate_idx.
C18_FirstFailureAnimates ==
  /\ []((~accepted /\ fails = 0 /\ act = "animate") => sent = << >>)
  /\ [][(~accepted /\ fails >= 1 /\ pc = "animate"
           /\ sinceSecond >= SECOND_INTERVAL /\ pc' # pc)
          => sent' = setOutdoorDisplay_animate(animate_idx)]_vars

\* the first poll after startup has failed and the animation has started
C18_Witness ==
  /\ ~accepted
  /\ fails = 1
  /\ act = "animate"
  /\ sent = setOutdoorDisplay_animate(0)
  /\ retryCount = 5

\* a frame with the unit bit that is not one of the two fallback glyphs
IsNumericFrame(f) ==
  f.celsius /\ f # setOutdoorDisplayStr("--")[1]
    /\ f # setOutdoorDisplayStr("NULL")[1]

\* C19: every numeric frame transmitted is the frame of a value in -99..99.
\* A poll transmits only the frame of a reading it fetched that lies in
\* [-60, 99] (so never one of the failure returns -101 and -102), an
\* override only the frame of an argument in [-99, 99]; a rejected override
\* transmits nothing and leaves currentTemp as it was.
C19_NumericFramesInRange ==
  /\ [](\A i \in 1..Len(sent) :
          IsNumericFrame(sent[i]) =>
            \E v \in -99..99 : sent[i] = setOutdoorDisplay(v)[1])
  /\ [][(pc = "poll" /\ pc' # pc /\ sent' # << >>) =>
          /\ currentTemp' = fetched'[Len(fetched')]
          /\ currentTemp' >= -60 * FloatScale
          /\ currentTemp' <= 99 * FloatScale
          /\ sent' = setOutdoorDisplay(FloatToInt(currentTemp'))]_vars
  /\ [][(pc = "handleClient" /\ pc' # pc /\ sent' # << >>) =>
          /\ resp' = 302
          /\ currentTemp' \in { IntToFloat(v) : v \in -99..99 }
          /\ sent' = setOutdoorDisplay(FloatToInt(currentTemp'))]_vars
  /\ [][resp' = 400 => (sent' = << >> /\ currentTemp' = currentTemp)]_vars

\* a poll whose first fetch failed has accepted the second reading, -60
C19_Witness ==
  /\ act = "poll"
  /\ fetched = << ERR_HTTP * FloatScale, -60 * FloatScale >>
  /\ sent = setOutdoorDisplay(-60)
  /\ currentTemp = -60 * FloatScale

\* the link test of this pass has seen the link come up
RisenThisPass == act = "link" /\ sent = animateStartLCD

\* a pass of loop() at its poll whose link has not been interrupted since
\* the poll before it: firstRun is not set
TimedPoll == pc = "poll" /\ pc' = "animate" /\ ~firstRun

\* C21: while the link stays up without interruption, a poll fetches only
\* when at least 300000 ms have gone by since the end of the fetch attempt
\* before it, and the first pass that finds 300000 ms gone by does fetch;
\* every fetch attempt, successful or not, ends with the poll timer at 0.
\* firstRun, which lets a poll fetch early, is found set at the poll only in
\* a pass whose link test has seen the link come up, or after the link has
\* changed behind the link test.
C21_PollInterval ==
  /\ [][TimedPoll => (fetched' # << >> <=> since5Min >= 300000)]_vars
  /\ [][fetched' # << >> => (act' = "poll" /\ since5Min' = 0)]_vars
  /\ []((pc = "poll" /\ firstRun) => (RisenThisPass \/ act = "LinkChange"))

\* a poll has failed since the last accepted reading with the link up ever
\* since: the poll timer, not a rising edge, has made it fetch
C21_Witness ==
  /\ act = "poll"
  /\ fetched # << >>
  /\ SinceAccepted(1, 1)
  /\ since5Min = 0

\* the step is a poll that fetches
FetchingPoll == pc = "poll" /\ act' = "poll" /\ fetched' # << >>

\* the first valid reading among the fetched values fs (one exists)
FirstValid(fs) ==
  fs[CHOOSE k \in 1..Len(fs) :
       ~Invalid(fs[k]) /\ \A j \in 1..(k - 1) : Invalid(fs[j])]

\* C24: a poll queries the secondary source only if the reading of the
\* primary source is invalid.  If both readings are invalid the error flag
\* is set and the failure counter goes up by one (below the cap MaxRetry of
\* the model); if one is valid the first valid reading becomes currentTemp,
\* the failure counter and the animation index are 0 and the error flag is
\* clear.
C24_SecondaryOnlyAfterInvalidPrimary ==
  [][FetchingPoll =>
       /\ Len(fetched') = (IF Invalid(fetched'[1]) THEN 2 ELSE 1)
       /\ IF \A k \in 1..Len(fetched') : Invalid(fetched'[k])
          THEN /\ isThermometerError'
               /\ retryCount' = Sat(retryCount + 1, MaxRetry)
          ELSE /\ currentTemp' = FirstValid(fetched')
               /\ retryCount' = 0
               /\ animate_idx' = 0
               /\ ~isThermometerError']_vars

\* a poll has found the primary reading just below the range and has
\* accepted the secondary reading, 99
C24_Witness ==
  /\ act = "poll"
  /\ fetched = << -60 * FloatScale - 1, 99 * FloatScale >>
  /\ currentTemp = 99 * FloatScale
  /\ retryCount = 0
  /\ animate_idx = 0
  /\ ~isThermometerError
  /\ shown = setOutdoorDisplay(99)[1]

(***************************************************************************)
(* Properties of the session while the link is down (SpecDown)             *)
(***************************************************************************)
DashFrame == setOutdoorDisplayStr("--")[1]
BlankFrame == setOutdoorDisplayStr("NULL")[1]
Glyphs == { DashFrame, BlankFrame }
StatusFrames == { setOutdoorDisplayStr(c)[1] : c \in StatusCodes }

\* WifiCheck runs with the link down
DownCheck == pc = "WifiCheck" /\ ~linkUp /\ pc' # pc

\* the reconnect attempt of WifiCheck is due
ReconnectDue == sinceWifiCheck >= 2000 /\ sinceReconnect >= 15000

SessionState == << pc, pending, sent, encIn, sessVars >>

\* C14: while a sendBitsArray call is running, every step is the next
\* primitive call of that transmission: no block of loop() runs, no session
\* variable changes and no other transmission starts, so the transmission
\* is never abandoned; and the frames an operation still has to transmit go
\* out before loop() moves on.
C14_TransmissionsAtomic ==
  /\ [][prog # << >> =>
          /\ prog' = Tail(prog)
          /\ call' = call
          /\ ncalls' = ncalls
          /\ UNCHANGED SessionState]_vars
  /\ [][(prog = << >> /\ pending # << >>) =>
          /\ pc' = pc
          /\ pending' = Tail(pending)
          /\ ncalls' >= ncalls
          /\ prog' = sendBitsArray(call'.digit1, call'.digit2,
                                   Head(pending).minus, Head(pending).celsius)]_vars

\* the override handler's transmission is half way: 8 bits clocked, the
\* loop waiting at the next block
C14_Witness ==
  /\ sent \in { setOutdoorDisplay(v) : v \in ShownValues }
  /\ pc = "WifiCheck"
  /\ prog # << >>
  /\ Len(edges) = 8
  /\ ncalls > 1

\* loop() has not yet seen the link up (in SpecDown, where the link never
\* drops, this is the time from startup to the first link-up)
Booting == ~wasWifiConnected

\* C17: from startup until loop() first sees the link up, every frame
\* transmitted is a frame of the connecting animation.
C17_BootingShowsAnimation ==
  Booting => \A i \in 1..Len(sent) : IsAnimFrame(sent[i])

\* What the code does: until then the frames come from WifiCheck alone, the
\* first of them is a fallback glyph, and nothing is transmitted before it
C17_BootingOfTheCode ==
  /\ []((Booting /\ sent # << >>) => act = "WifiCheck")
  /\ [][(shown = NoFrame /\ shown' # NoFrame) => sent'[1] = DashFrame]_vars

(***************************************************************************)
(* The latch line during the 16 bits (SpecTx)                              *)
(***************************************************************************)
\* the primitive calls on the given pin that the transmission has still to make
OpsLeft(pin) == { j \in 1..Len(prog) : prog[j].pin = pin }

\* the clock pulses not yet begun: the releases of the clock still to come
PulsesLeft ==
  Cardinality({ j \in OpsLeft(PIN_CLOCK) : prog[j].mode = "INPUT" })

\* C20: in every transmission the latch line is driven low before the data
\* line is touched, and while anything of the 16 clock pulses is still to
\* do it is driven low and has not changed since; the latch is released
\* only by the latch pulse after the 16 bits.
C20_LatchLowDuringBits ==
  (prog # << >> /\ OpsLeft(PIN_CLOCK) # { }) =>
    IF Head(prog).pin = PIN_LATCH
      THEN /\ PulsesLeft = 16
           /\ edges = << >>
           /\ \A j \in OpsLeft(PIN_DATA) : \E k \in OpsLeft(PIN_LATCH) : k < j
      ELSE /\ DrivenLow(pins, PIN_LATCH)
           /\ latchTrace[Len(latchTrace)].st = "low"
           /\ Len(latchTrace) <= 2
           /\ \A k \in OpsLeft(PIN_LATCH) : \A j \in OpsLeft(PIN_CLOCK) : j < k

\* the first transmission after initPins is in its 16th clock pulse: the
\* latch, released until the call, has been low since the call began
C20_Witness ==
  /\ ncalls = 1
  /\ prog # << >>
  /\ PulsesLeft = 0
  /\ OpsLeft(PIN_CLOCK) # { }
  /\ DrivenLow(pins, PIN_LATCH)
  /\ LatchStates = << "released", "low" >>

(***************************************************************************)
(* Liveness of the error animation (SpecLive)                              *)
(***************************************************************************)
\* the link is up from some point on
LinkStaysUp == <>[]linkUp

\* from some point on every poll that fetches gets only invalid readings
PollsKeepFailing ==
  <>[][fetched' # << >> => \A k \in 1..Len(fetched') : Invalid(fetched'[k])]_vars

\* the error animation of loop() transmits the frame of index i
AnimateSends(i) == act = "animate" /\ sent = setOutdoorDisplay_animate(i)

\* C22: if the link stays up from some point on, time goes on and from some
\* point on every poll gets only invalid readings, then the error animation
\* of loop() transmits each of its 12 frames again and again.
C22_ErrorAnimationRuns ==
  (LinkStaysUp /\ PollsKeepFailing) => \A i \in 0..11 : []<>AnimateSends(i)

\* the animation of loop() sends its last frame after four polls in a row
\* have failed with the link up
C22_Witness ==
  /\ AnimateSends(11)
  /\ linkUp
  /\ isThermometerError
  /\ SinceAccepted(4, MaxRetry)

====
